---------------------------- MODULE Spec2Model ----------------------------
(***************************************************************************)
(* The rail ride of lexus-prototype: the arc-length table built from the   *)
(* control points, the speed profile, the conversion between arc length,   *)
(* curve parameter and sample index, and the ride clock driven by the      *)
(* render loop and the UI handlers (src/unnamed/part_000).                 *)
(*                                                                         *)
(* Numbers.  The source computes in IEEE doubles.  The model computes in   *)
(* fixed point: a length, a speed, a time or a fraction x is the integer   *)
(* x * Unit, a product or quotient is rounded down to the next multiple of *)
(* 1/Unit.  The value NaN (parseFloat of a non-numeric field, x % 0) is    *)
(* kept as a value of its own: arithmetic on it yields NaN and every       *)
(* comparison with it is false, as in the source.                          *)
(***************************************************************************)
EXTENDS Integers, Sequences, FiniteSets, TLC

\* Fixed point: three decimal places (1 = a millimetre, a millisecond, 0.1 %).
Unit == 10 * 10 * 10
One == Unit

\* The JavaScript value NaN.
NaN == -999999999

IsNaN(a) == a = NaN
IsNum(a) == a # NaN

(***************************************************************************)
(* JavaScript arithmetic on fixed-point numbers.                           *)
(***************************************************************************)
NAdd(a, b) == IF IsNaN(a) \/ IsNaN(b) THEN NaN ELSE a + b
NSub(a, b) == IF IsNaN(a) \/ IsNaN(b) THEN NaN ELSE a - b
\* a * b, both fixed point
NMul(a, b) == IF IsNaN(a) \/ IsNaN(b) THEN NaN ELSE (a * b) \div Unit
\* a * k / 100: a percentage k given as a plain number (75 for 75 %)
NPct(a, k) == IF IsNaN(a) \/ IsNaN(k) THEN NaN ELSE (a * k) \div 100
NLt(a, b) == IsNum(a) /\ IsNum(b) /\ a < b
NLe(a, b) == IsNum(a) /\ IsNum(b) /\ a <= b
NGt(a, b) == IsNum(a) /\ IsNum(b) /\ a > b
NGe(a, b) == IsNum(a) /\ IsNum(b) /\ a >= b
MathMax(a, b) == IF IsNaN(a) \/ IsNaN(b) THEN NaN ELSE IF a >= b THEN a ELSE b
MathMin(a, b) == IF IsNaN(a) \/ IsNaN(b) THEN NaN ELSE IF a <= b THEN a ELSE b
\* The remainder operator %: the sign of the dividend, NaN for a zero divisor.
JsMod(a, b) ==
  IF IsNaN(a) \/ IsNaN(b) \/ b = 0 THEN NaN
  ELSE IF a >= 0 THEN a % b ELSE 0 - ((0 - a) % b)

\* THREE.MathUtils.clamp(value, min, max) = Math.max(min, Math.min(max, value))
Clamp(value, lo, hi) == MathMax(lo, MathMin(hi, value))
\* THREE.MathUtils.lerp(x, y, t) = (1 - t) * x + t * y
Lerp(x, y, t) == NAdd(NMul(NSub(One, t), x), NMul(t, y))

\* A clamp that bounds from below only
clampNumberFromBelow(value, lo, hi) == MathMax(value, lo)

clampNumber(value, lo, hi) == MathMin(MathMax(value, lo), hi)

\* 1 / 1e-6, the reciprocal of the floor put under every window and segment length
EpsInv == 1000000
\* a / Math.max(1e-6, b): every positive fixed-point b is above 1e-6
DivEps(a, b) ==
  IF IsNaN(a) \/ IsNaN(b) THEN NaN
  ELSE IF b >= 1 THEN (a * Unit) \div b
  ELSE a * EpsInv

(***************************************************************************)
(* Vectors (THREE.Vector3) and the square root.                            *)
(***************************************************************************)
RECURSIVE SqrtSearch(_, _, _)
SqrtSearch(n, lo, hi) ==
  IF lo >= hi THEN lo
  ELSE LET mid == (lo + hi + 1) \div 2
       IN IF mid * mid <= n THEN SqrtSearch(n, mid, hi) ELSE SqrtSearch(n, lo, mid - 1)
\* Math.sqrt on integers, rounded down
ISqrt(n) == SqrtSearch(n, 0, 40000)

Vec(x, y, z) == [x |-> x, y |-> y, z |-> z]
\* Whether a coordinate of the vector is NaN
HasNaN(a) == IsNaN(a.x) \/ IsNaN(a.y) \/ IsNaN(a.z)
DistSq(a, b) ==
  IF HasNaN(a) \/ HasNaN(b) THEN NaN
  ELSE (a.x - b.x) * (a.x - b.x) + (a.y - b.y) * (a.y - b.y) + (a.z - b.z) * (a.z - b.z)
\* Vector3.distanceTo
Dist(a, b) == IF IsNaN(DistSq(a, b)) THEN NaN ELSE ISqrt(DistSq(a, b))
\* Vector3.lerpVectors(a, b, k / steps)
LerpVectors(a, b, k, steps) ==
  Vec(a.x + ((b.x - a.x) * k) \div steps,
      a.y + ((b.y - a.y) * k) \div steps,
      a.z + ((b.z - a.z) * k) \div steps)

CeilDiv(a, b) == (a + b - 1) \div b


(***************************************************************************)
(* The curve: THREE.CatmullRomCurve3(points, false, 'catmullrom', tension) *)
(* as initializePathData uses it.                                          *)
(***************************************************************************)
\* CubicPoly.initCatmullRom(x0, x1, x2, x3, tension) followed by calc(w)
CubicCalc(x0, x1, x2, x3, tens, w) ==
  LET t0 == NMul(tens, x2 - x0)
      t1 == NMul(tens, x3 - x1)
      c0 == x1
      c1 == t0
      c2 == 3 * x2 - 3 * x1 - 2 * t0 - t1
      c3 == 2 * x1 - 2 * x2 + t0 + t1
      w2 == NMul(w, w)
      w3 == NMul(w2, w)
  IN IF IsNaN(tens) \/ IsNaN(x0) \/ IsNaN(x1) \/ IsNaN(x2) \/ IsNaN(x3) THEN NaN
     ELSE c0 + NMul(c1, w) + NMul(c2, w2) + NMul(c3, w3)

\* The point beyond an end of an open curve, one coordinate: a + (a - b)
Extrapolate(a, b) == NSub(NAdd(a, a), b)

\* CatmullRomCurve3.getPoint(d / divisions), open curve
CurvePoint(pts, tens, d, divisions) ==
  LET l == Len(pts)
      raw == ((l - 1) * d) \div divisions
      atEnd == ((l - 1) * d) % divisions = 0 /\ raw = l - 1
      intPoint == IF atEnd THEN l - 2 ELSE raw
      weight == IF atEnd THEN One
                ELSE ((((l - 1) * d) % divisions) * Unit) \div divisions
      p1 == pts[intPoint + 1]
      p2 == pts[intPoint + 2]
      p0 == IF intPoint > 0 THEN pts[intPoint]
            ELSE Vec(Extrapolate(pts[1].x, pts[2].x), Extrapolate(pts[1].y, pts[2].y),
                     Extrapolate(pts[1].z, pts[2].z))
      p3 == IF intPoint + 2 < l THEN pts[intPoint + 3]
            ELSE Vec(Extrapolate(pts[l].x, pts[l - 1].x), Extrapolate(pts[l].y, pts[l - 1].y),
                     Extrapolate(pts[l].z, pts[l - 1].z))
  IN Vec(CubicCalc(p0.x, p1.x, p2.x, p3.x, tens, weight),
         CubicCalc(p0.y, p1.y, p2.y, p3.y, tens, weight),
         CubicCalc(p0.z, p1.z, p2.z, p3.z, tens, weight))

\* Curve.getPoints(divisions): divisions + 1 points
GetPoints(pts, tens, divisions) ==
  [d \in 1..(divisions + 1) |-> CurvePoint(pts, tens, d - 1, divisions)]

\* const targetStep = 0.02
TargetStep == 20

\* The inner loop of initializePathData: the sub-steps k..steps between a and b,
\* appended to the table tbl = [pts, cum, acc].
RECURSIVE SubSteps(_, _, _, _, _)
SubSteps(tbl, a, b, k, steps) ==
  IF k > steps THEN tbl
  ELSE LET p == LerpVectors(a, b, k, steps)
           acc == NAdd(tbl.acc, Dist(p, tbl.pts[Len(tbl.pts)]))
       IN SubSteps([pts |-> Append(tbl.pts, p), cum |-> Append(tbl.cum, acc), acc |-> acc],
                   a, b, k + 1, steps)

\* The outer loop of initializePathData over the evaluated points i..Len(points).
\* For a distance d = NaN, steps is NaN and the inner loop (k <= steps) runs no pass.
RECURSIVE ArcTable(_, _, _)
ArcTable(tbl, points, i) ==
  IF i > Len(points) THEN tbl
  ELSE LET a == points[i - 1]
           b == points[i]
           d == Dist(a, b)
           steps == IF IsNaN(d) THEN 0
                    ELSE IF CeilDiv(d, TargetStep) >= 1 THEN CeilDiv(d, TargetStep) ELSE 1
       IN ArcTable(SubSteps(tbl, a, b, 1, steps), points, i + 1)

\* d < bestD for the squared distances of two samples; bestD starts as Infinity and
\* a distance NaN is below nothing
Nearer(d, bestD) == IsNum(d) /\ (IsNaN(bestD) \/ d < bestD)

\* The sample nearest to p, the first one among equals
RECURSIVE NearestIndex(_, _, _, _)
NearestIndex(samples, p, i, best) ==
  IF i > Len(samples) THEN best
  ELSE NearestIndex(samples, p, i + 1,
                    IF Nearer(DistSq(samples[i], p), DistSq(samples[best], p))
                    THEN i ELSE best)

\* Math.max(2, sCurveControlPoints.length * resScale)
Divisions(pts, rs) == IF Len(pts) * rs >= 2 THEN Len(pts) * rs ELSE 2

\* initializePathData(): the sampled points, the cumulative lengths, the total
\* length and the arc length at each control point.
initializePathData(pts, tens, rs) ==
  LET points == GetPoints(pts, tens, Divisions(pts, rs))
      tbl == ArcTable([pts |-> <<points[1]>>, cum |-> <<0>>, acc |-> 0], points, 2)
  IN [sampledPts |-> tbl.pts,
      cumLen |-> tbl.cum,
      totalLen |-> tbl.acc,
      sAtPoint |-> [j \in 1..Len(pts) |-> tbl.cum[NearestIndex(tbl.pts, pts[j], 1, 1)]]]

(***************************************************************************)
(* Turn angles.                                                            *)
(***************************************************************************)
\* 1000 * cos(d degrees) for d = 0..180 (entry d + 1)
CosTable ==
  << 1000, 1000, 999, 999, 998, 996, 995, 993, 990, 988, 985, 982,
     978, 974, 970, 966, 961, 956, 951, 946, 940, 934, 927, 921,
     914, 906, 899, 891, 883, 875, 866, 857, 848, 839, 829, 819,
     809, 799, 788, 777, 766, 755, 743, 731, 719, 707, 695, 682,
     669, 656, 643, 629, 616, 602, 588, 574, 559, 545, 530, 515,
     500, 485, 469, 454, 438, 423, 407, 391, 375, 358, 342, 326,
     309, 292, 276, 259, 242, 225, 208, 191, 174, 156, 139, 122,
     105, 87, 70, 52, 35, 17, 0, -17, -35, -52, -70, -87,
     -105, -122, -139, -156, -174, -191, -208, -225, -242, -259, -276, -292,
     -309, -326, -342, -358, -375, -391, -407, -423, -438, -454, -469, -485,
     -500, -515, -530, -545, -559, -574, -588, -602, -616, -629, -643, -656,
     -669, -682, -695, -707, -719, -731, -743, -755, -766, -777, -788, -799,
     -809, -819, -829, -839, -848, -857, -866, -875, -883, -891, -899, -906,
     -914, -921, -927, -934, -940, -946, -951, -956, -961, -966, -970, -974,
     -978, -982, -985, -988, -990, -993, -995, -996, -998, -999, -999, -1000,
     -1000 >>

\* radToDeg(Math.acos(c)) in whole degrees: the first degree whose cosine is <= c
RECURSIVE AcosSearch(_, _)
AcosSearch(c, d) == IF d >= 180 \/ CosTable[d + 1] <= c THEN d ELSE AcosSearch(c, d + 1)
AcosDeg(c) == IF IsNaN(c) THEN NaN ELSE IF c <= 0 - One THEN 180 ELSE AcosSearch(c, 0)

\* Vector3.setY(0) alone, the vector left at its length
FlatOnly(dx, dz) == [x |-> dx, z |-> dz]

\* Vector3.setY(0).normalize(): divideScalar(length() || 1), so the zero vector
\* stays zero and a vector with a NaN coordinate stays as it is
FlatNormalize(dx, dz) ==
  IF IsNaN(dx) \/ IsNaN(dz) THEN [x |-> dx, z |-> dz]
  ELSE LET len == ISqrt(dx * dx + dz * dz)
       IN IF len = 0 THEN [x |-> 0, z |-> 0]
          ELSE [x |-> (dx * Unit) \div len, z |-> (dz * Unit) \div len]

\* computeTurnAngles(): 0 at the end points, the horizontal turn at interior ones
computeTurnAngles(pts) ==
  [i \in 1..Len(pts) |->
     IF i = 1 \/ i = Len(pts) THEN 0
     ELSE LET a == FlatNormalize(NSub(pts[i].x, pts[i - 1].x), NSub(pts[i].z, pts[i - 1].z))
              b == FlatNormalize(NSub(pts[i + 1].x, pts[i].x), NSub(pts[i + 1].z, pts[i].z))
              dot == IF IsNaN(a.x) \/ IsNaN(a.z) \/ IsNaN(b.x) \/ IsNaN(b.z) THEN NaN
                     ELSE Clamp((a.x * b.x + a.z * b.z) \div Unit, 0 - One, One)
          IN AcosDeg(dot)]

(***************************************************************************)
(* The state of the program.                                               *)
(***************************************************************************)
VARIABLES
  sCurveControlPoints,  \* the control points of the current path
  segSpeeds,            \* one speed per segment
  sampledPts,           \* the sampled points of the arc-length table
  cumLen,               \* the cumulative length at each sampled point
  totalLen,             \* the length of the path
  sAtPoint,             \* the arc length at each control point
  turnAngle,            \* the turn angle at each control point, in degrees
  tension,              \* the spline tension
  resScale,             \* the value of the resScale field
  heightScale,          \* the value of the heightScale field
  speedWindow,          \* the values of the fields wPrevStart .. wNextAccel
  anglePct,             \* the values of the fields p0_20 .. p165_180
  rideProgressS,        \* the arc length travelled
  rideProgressT,        \* the curve parameter derived from it
  isRideActive,
  isRideLooping,
  playerHearts,
  wasInsideTargetPrevFrame,
  noDamageMode,
  yawSensitivity,       \* the steering sensitivity
  rollRelativeDegreesSmoothed,  \* the smoothed steering angle relative to the baseline
  isGyroEnabled,
  listening,            \* whether handleDeviceOrientationEvent is registered on the window
  rollBaselineDegrees,  \* the baseline set by centerGyroscopeHeading
  rollDegreesSmoothed,  \* the smoothed roll of the device
  gyroResult,           \* what the last enableGyroscope() resolved to: "none", "true", "false"
  gyroPending,          \* enableGyroscope calls awaiting requestPermission
  platform,             \* the browser: "permission" (DeviceOrientationEvent.requestPermission
                        \* exists), "noApi" (it does not), "unsupported" (no DeviceOrientationEvent)
  camera,               \* where placeCameraAtPathT last put the camera and the lead marker
  mainPc,               \* main(): awaiting the initial load, or in the render loop
  pendingImports,       \* loadPathFromJSON calls awaiting their file
  lastError,            \* how the last handler or frame ended: "none", "alert" (the message of
                        \* a failed load) or "TypeError" (thrown and not caught)
  probe,                \* the last direct call of a path function: its argument and result
  markerRide,           \* the game of the score-marker variant (src/src/main.ts): its ride
                        \* clock, score, hearts and last score point
  countdowns            \* the countdown intervals of the calibration start button that are
                        \* still running: the count of each, and whether stopRide() ran since

pathVars == <<sCurveControlPoints, segSpeeds, sampledPts, cumLen, totalLen, sAtPoint, turnAngle>>
paramVars == <<tension, resScale, heightScale, speedWindow, anglePct>>
rideVars == <<rideProgressS, rideProgressT, isRideActive, isRideLooping>>
gameVars == <<playerHearts, wasInsideTargetPrevFrame, noDamageMode>>
sensorVars == <<isGyroEnabled, listening, rollBaselineDegrees, rollDegreesSmoothed, gyroResult,
                gyroPending, platform>>
gyroVars == <<yawSensitivity, rollRelativeDegreesSmoothed, sensorVars>>
vars == <<pathVars, paramVars, rideVars, gameVars, camera, mainPc, pendingImports, lastError,
          probe, gyroVars, markerRide, countdowns>>

(***************************************************************************)
(* Arc length to sample index and to curve parameter.                      *)
(***************************************************************************)
\* An array element, undefined (here NaN) outside the array; i counts from 0.
At(arr, i) == IF i >= 0 /\ i < Len(arr) THEN arr[i + 1] ELSE NaN

\* The loop of distanceToIndex with its two branches exchanged
RECURSIVE BinarySearchInverted(_, _, _, _)
BinarySearchInverted(cl, distance, lo, hi) ==
  IF lo < hi
  THEN LET mid == (lo + hi) \div 2
       IN IF NLt(At(cl, mid), distance)
          THEN BinarySearchInverted(cl, distance, lo, mid)
          ELSE BinarySearchInverted(cl, distance, mid + 1, hi)
  ELSE lo

\* The loop of distanceToIndex: while (lo < hi) { mid = (lo + hi) >> 1; ... }
RECURSIVE BinarySearch(_, _, _, _)
BinarySearch(cl, distance, lo, hi) ==
  IF lo < hi
  THEN LET mid == (lo + hi) \div 2
       IN IF NLt(At(cl, mid), distance)
          THEN BinarySearch(cl, distance, mid + 1, hi)
          ELSE BinarySearch(cl, distance, lo, mid)
  ELSE lo

\* distanceToIndex without the clamp of its argument to [0, totalLen]
distanceToIndexUnclamped(cl, tl, distance) == BinarySearch(cl, distance, 0, Len(cl) - 1)

\* distanceToIndex(distance) over the table cl of total length tl
distanceToIndexIn(cl, tl, distance) ==
  BinarySearch(cl, MathMax(0, MathMin(distance, tl)), 0, Len(cl) - 1)

distanceToIndex(distance) == distanceToIndexIn(cumLen, totalLen, distance)

\* sToT(s) over the table cl of total length tl with n sampled points
sToTIn(cl, tl, n, s) ==
  IF tl = 0 \/ IsNaN(s) THEN 0
  ELSE LET targetS == Clamp(s, 0, tl)
           index == distanceToIndexIn(cl, tl, targetS)
       IN IF index = 0 THEN 0
          ELSE IF index >= Len(cl) - 1 THEN One
          ELSE LET s0 == At(cl, index - 1)
                   s1 == At(cl, index)
                   t1 == (index * Unit) \div (n - 1)
                   t0 == ((index - 1) * Unit) \div (n - 1)
                   segmentLength == s1 - s0
                   segmentProgress ==
                     IF segmentLength = 0 THEN 0
                     ELSE ((targetS - s0) * Unit) \div segmentLength
               IN t0 + NMul(t1 - t0, segmentProgress)

sToT(s) == sToTIn(cumLen, totalLen, Len(sampledPts), s)

(***************************************************************************)
(* The speed profile.                                                      *)
(***************************************************************************)
\* const defaultSpeed = 10 (and the fallback of baseSegmentSpeedAtS), in fixed point
DefaultSpeed == 10000

\* anglePercent(deg): the field of the band of deg, as a fraction.  An undefined
\* angle fails every comparison and falls through to the last band.
anglePercent(deg) ==
  LET field == IF NLe(deg, 20) THEN 1
               ELSE IF NLe(deg, 45) THEN 2
               ELSE IF NLe(deg, 90) THEN 3
               ELSE IF NLe(deg, 120) THEN 4
               ELSE IF NLe(deg, 150) THEN 5
               ELSE IF NLe(deg, 165) THEN 6
               ELSE 7
  IN NPct(anglePct[field], Unit)

\* a ?? b
Nullish(a, b) == IF IsNaN(a) THEN b ELSE a

\* The loop of baseSegmentSpeedAtS over the control points i .. n - 1
RECURSIVE BaseSegmentLoop(_, _)
BaseSegmentLoop(s, i) ==
  IF i >= Len(sCurveControlPoints)
  THEN Nullish(At(segSpeeds, Len(segSpeeds) - 1), DefaultSpeed)
  ELSE IF NLe(s, At(sAtPoint, i)) THEN Nullish(At(segSpeeds, i - 1), DefaultSpeed)
  ELSE BaseSegmentLoop(s, i + 1)

\* The speed of the last segment wherever s lies
baseSpeedOfLastSegment(s) == Nullish(At(segSpeeds, Len(segSpeeds) - 1), DefaultSpeed)

baseSegmentSpeedAtS(s) ==
  IF Len(sCurveControlPoints) < 2 THEN DefaultSpeed ELSE BaseSegmentLoop(s, 1)

\* A pass of the loop that leaves the speed as it found it
NoTurnWindow(s, v, i) == v

\* One pass of the loop of speedAtS: the windows of the turn at control point i
\* applied to the speed v found so far.
TurnWindow(s, v, i) ==
  LET prevStart == speedWindow.wPrevStart
      prevEnd == speedWindow.wPrevEnd
      nextHold == speedWindow.wNextHold
      nextAccel == speedWindow.wNextAccel
      sPrevA == At(sAtPoint, i - 1)
      sPrevB == At(sAtPoint, i)
      sNextA == At(sAtPoint, i)
      sNextB == At(sAtPoint, i + 1)
      tPrev == Clamp(DivEps(NSub(s, sPrevA), NSub(sPrevB, sPrevA)), 0, One)
      tNext == Clamp(DivEps(NSub(s, sNextA), NSub(sNextB, sNextA)), 0, One)
      prevV == Nullish(At(segSpeeds, i - 1), v)
      nextV == Nullish(At(segSpeeds, i), v)
      minPct == anglePercent(At(turnAngle, i))
      minV == NMul(MathMin(prevV, nextV), minPct)
      afterPrev ==
        IF NGe(s, sPrevA) /\ NLe(s, sPrevB)
        THEN IF NGe(tPrev, prevStart) /\ NLe(tPrev, prevEnd)
             THEN Lerp(prevV, minV,
                       Clamp(DivEps(NSub(tPrev, prevStart), NSub(prevEnd, prevStart)), 0, One))
             ELSE IF NGt(tPrev, prevEnd) /\ NLe(tPrev, One) THEN minV
             ELSE v
        ELSE v
  IN IF NGe(s, sNextA) /\ NLe(s, sNextB)
     THEN IF NLe(tNext, nextHold) THEN minV
          ELSE IF NGt(tNext, nextHold) /\ NLe(tNext, nextAccel)
          THEN Lerp(minV, nextV,
                    Clamp(DivEps(NSub(tNext, nextHold), NSub(nextAccel, nextHold)), 0, One))
          ELSE afterPrev
     ELSE afterPrev

\* A loop that stops after its first pass
SpeedLoopOnce(s, v, i) ==
  IF i < Len(sCurveControlPoints) - 1 THEN TurnWindow(s, v, i) ELSE v

\* for (let i = 1; i < sCurveControlPoints.length - 1; i++)
RECURSIVE SpeedLoop(_, _, _)
SpeedLoop(s, v, i) ==
  IF i < Len(sCurveControlPoints) - 1 THEN SpeedLoop(s, TurnWindow(s, v, i), i + 1) ELSE v

\* speedAtS(s)
speedAtS(s) == MathMax(0, SpeedLoop(s, baseSegmentSpeedAtS(s), 1))

(***************************************************************************)
(* Camera and lead marker.                                                 *)
(***************************************************************************)
\* parseFloat(leadDistanceInput.value) || 2.0
LeadDistanceMeters == 2000

\* placeCameraAtPathT reads sampledPts[idx] and a neighbour of it: with fewer than
\* two sampled points one of them is undefined and subVectors throws a TypeError.
PlaceCameraThrows(samples) == Len(samples) < 2

\* placeCameraAtPathT(pathT): the sample the camera sits at and the sample the lead
\* marker sits at, for the arc length s (the function reads rideProgressS, not pathT).
placeCameraAtPathT(cl, tl, s) ==
  LET aheadS == JsMod(NAdd(s, LeadDistanceMeters), tl)
  IN [at |-> s,
      idx |-> distanceToIndexIn(cl, tl, s),
      aheadS |-> aheadS,
      aheadIdx |-> distanceToIndexIn(cl, tl, aheadS)]

NoCamera == [at |-> NaN, idx |-> -1, aheadS |-> NaN, aheadIdx |-> -1]

\* No path function has been called directly
NoProbe == [fn |-> "none", arg |-> 0, result |-> 0]

(***************************************************************************)
(* Path files and the values offered to the input fields.                  *)
(***************************************************************************)
Pt(x, z) == [x |-> x, z |-> z]

\* The path the module starts with (sCurveControlPoints, segSpeeds).
DefaultControlPoints ==
  << Vec(0, 0, 0), Vec(12000, 0, 12000), Vec(-12000, 0, 24000), Vec(12000, 0, 36000),
     Vec(-12000, 0, 48000), Vec(12000, 0, 60000), Vec(-12000, 0, 72000),
     Vec(12000, 0, 84000), Vec(-12000, 0, 96000), Vec(0, 0, 108000) >>
DefaultSegSpeeds == [i \in 1..9 |-> 10000]

\* A file that arrives and parses: its points array, with nullPoint telling
\* whether an entry of the array is null, and its speed list
PathFile(points, speeds) ==
  [ok |-> TRUE, nullPoint |-> FALSE, points |-> points, segmentSpeeds |-> speeds]
\* A file that cannot be fetched or parsed, or holds no points array
NoFile == [ok |-> FALSE, nullPoint |-> FALSE, points |-> <<>>, segmentSpeeds |-> <<>>]

\* Path descriptions a load delivers during a ride: a bend with a speed per
\* segment and a path of length zero.
PathFiles ==
  { PathFile(<<Pt(0, 0), Pt(40, 0), Pt(40, 30)>>, <<200, 400>>),
    PathFile(<<Pt(0, 0), Pt(0, 0)>>, <<1000>>) }

\* What a load may deliver beyond that: a file that cannot be fetched or parsed; a
\* single point; the bend with a speed list that is too short and holds a 0, and
\* with one that is too long; a path whose first point lacks its x (+p.x is NaN);
\* a points array with a null entry.
LoadFiles ==
  PathFiles \cup
  { NoFile,
    PathFile(<<Pt(0, 0)>>, <<>>),
    PathFile(<<Pt(0, 0), Pt(40, 0), Pt(40, 30)>>, <<0>>),
    PathFile(<<Pt(0, 0), Pt(40, 0), Pt(40, 30)>>, <<300, 500, 700>>),
    PathFile(<<Pt(NaN, 0), Pt(0, 0), Pt(40, 0), Pt(40, 30)>>, <<>>),
    [PathFile(<<Pt(0, 0), Pt(40, 0)>>, <<>>) EXCEPT !.nullPoint = TRUE] }
\* What a user may leave in the tension field besides a number
LoadTensions == {700, NaN}

\* What a user may leave in the tension, resolution and height fields
Tensions == {500, 700}
ResScales == {1, 2}
HeightScales == {100}
\* Frame times, in milliseconds
DeltaSet == {50, 100}

DefaultSpeedWindow ==
  [wPrevStart |-> 625, wPrevEnd |-> 1000, wNextHold |-> 0, wNextAccel |-> 500]
DefaultAnglePct == <<100, 90, 75, 60, 10, 5, 1>>
\* What a user may leave in a window field, and in a severity field
WindowFieldValues ==
  [wPrevStart |-> {625}, wPrevEnd |-> {1000}, wNextHold |-> {0}, wNextAccel |-> {500}]
AnglePctValues == [f \in 1..7 |-> IF f = 3 THEN {75} ELSE {DefaultAnglePct[f]}]

\* Paths for calling the path functions directly: the two above, a four-point
\* zig-zag with a short speed list, a path ending in three coincident points with a
\* long speed list holding a negative and a zero speed, and a hairpin.
ProbeFiles ==
  PathFiles \cup
  { PathFile(<<Pt(0, 0), Pt(40, 0), Pt(40, 40), Pt(80, 40)>>, <<1000>>),
    PathFile(<<Pt(0, 0), Pt(50, 0), Pt(50, 0), Pt(50, 0)>>, <<1000, -1000, 0, 5000>>),
    PathFile(<<Pt(0, 0), Pt(80, 0), Pt(20, 0)>>, <<1000, 3000>>) }
ProbeResScales == {1, 2}
\* What a user may leave in a window field and in a severity field: a number, a
\* negative number, text that parseFloat turns into NaN
ProbeWindowValues ==
  [wPrevStart |-> {625}, wPrevEnd |-> {1000}, wNextHold |-> {0}, wNextAccel |-> {500, 750}]
ProbeAnglePctValues ==
  [f \in 1..7 |-> IF f = 3 THEN {75, -50, NaN} ELSE {DefaultAnglePct[f]}]
\* The arc lengths the path functions are called with, besides the entries of the
\* table itself: from before the start to beyond the end of every path
ProbeStep == 7
ProbeSteps == 19
ProbeArguments == {NaN, -10} \cup {k * ProbeStep : k \in 0..ProbeSteps}

\* Import requests that may wait for their file at one time
MaxPending == 1

(***************************************************************************)
(* The start of the program.                                               *)
(***************************************************************************)
\* The game state of the score-marker variant as its module leaves it. clean is
\* history, not program state: the ride began with a score of 0 and the needle has
\* overlapped the target on every frame since.
MarkerStart ==
  [rideProgressT |-> 0, isRideActive |-> FALSE, isRideLooping |-> FALSE,
   playerScore |-> 0, playerHearts |-> 3, maxScore |-> 15,
   wasInsideTargetPrevFrame |-> FALSE, lastScorePointIndex |-> 0, noDamageMode |-> FALSE,
   clean |-> FALSE]

\* The gyroscope as the module leaves it: not enabled, nothing registered
SensorOff ==
  /\ isGyroEnabled = FALSE
  /\ listening = FALSE
  /\ rollBaselineDegrees = 0
  /\ rollDegreesSmoothed = 0
  /\ gyroResult = "none"
  /\ gyroPending = 0
  /\ platform = "permission"

Init ==
  /\ markerRide = MarkerStart
  /\ countdowns = <<>>
  /\ sCurveControlPoints = DefaultControlPoints
  /\ segSpeeds = DefaultSegSpeeds
  /\ sampledPts = <<>>
  /\ cumLen = <<>>
  /\ totalLen = 0
  /\ sAtPoint = <<>>
  /\ turnAngle = <<>>
  /\ tension = 700
  /\ resScale \in ResScales
  /\ heightScale \in HeightScales
  /\ speedWindow = DefaultSpeedWindow
  /\ anglePct = DefaultAnglePct
  /\ rideProgressS = 0
  /\ rideProgressT = 0
  /\ isRideActive = FALSE
  /\ isRideLooping = FALSE
  /\ playerHearts = 3
  /\ wasInsideTargetPrevFrame = FALSE
  /\ noDamageMode = FALSE
  /\ yawSensitivity = One
  /\ rollRelativeDegreesSmoothed = 0
  /\ SensorOff
  /\ camera = NoCamera
  /\ mainPc = "loading"
  /\ pendingImports = 0
  /\ lastError = "none"
  /\ probe = NoProbe

(***************************************************************************)
(* Building the curve and loading a path.                                  *)
(***************************************************************************)
\* Whether loadPathFromJSON gets past its checks: the text arrives, parses, and
\* data.points is an array of at least two entries
FileValid(file) == file.ok /\ Len(file.points) >= 2

ControlPointsOf(file) ==
  [i \in 1..Len(file.points) |-> Vec(file.points[i].x, 0, file.points[i].z)]

\* The control-point lists a load can install
LoadablePaths ==
  {ControlPointsOf(file) :
     file \in {f \in ProbeFiles \cup LoadFiles : FileValid(f) /\ ~f.nullPoint}}

\* initializePathData and computeTurnAngles for every loadable path and every
\* value the tension and resolution fields take, evaluated once.
Builds ==
  [key \in LoadablePaths \X (Tensions \cup LoadTensions) \X (ResScales \cup ProbeResScales) |->
     [data |-> initializePathData(key[1], key[2], key[3]),
      turnAngle |-> computeTurnAngles(key[1])]] @@ <<>>

BuildOf(pts, tens, rs) == Builds[<<pts, tens, rs>>]

\* A height offset added to the samples the program holds where there are as many
\* as in the build b
HeightOffsetOnCurrent(b, hs) ==
  [sampledPts |-> [i \in 1..Len(b.data.sampledPts) |->
                     Vec(b.data.sampledPts[i].x,
                         NAdd(IF Len(sampledPts) = Len(b.data.sampledPts)
                              THEN sampledPts[i].y ELSE b.data.sampledPts[i].y,
                              NMul(b.data.cumLen[i], hs)),
                         b.data.sampledPts[i].z)],
   cumLen |-> b.data.cumLen,
   totalLen |-> b.data.totalLen,
   sAtPoint |-> b.data.sAtPoint,
   turnAngle |-> b.turnAngle]

\* sampledPts[i].y += cumLen[i] * heightScale, for the build b
HeightOffset(b, hs) ==
  [sampledPts |-> [i \in 1..Len(b.data.sampledPts) |->
                     Vec(b.data.sampledPts[i].x,
                         NAdd(b.data.sampledPts[i].y, NMul(b.data.cumLen[i], hs)),
                         b.data.sampledPts[i].z)],
   cumLen |-> b.data.cumLen,
   totalLen |-> b.data.totalLen,
   sAtPoint |-> b.data.sAtPoint,
   turnAngle |-> b.turnAngle]

\* The arc-length data rebuildCurveAndRoad leaves behind for the control points pts:
\* initializePathData, computeTurnAngles, then the height offset on the samples.
rebuildCurveAndRoad(pts, tens, rs, hs) == HeightOffset(BuildOf(pts, tens, rs), hs)

\* The tables of the build b become the tables of the program
Install(b) ==
  /\ sampledPts' = b.sampledPts
  /\ cumLen' = b.cumLen
  /\ totalLen' = b.totalLen
  /\ sAtPoint' = b.sAtPoint
  /\ turnAngle' = b.turnAngle

\* The model samples the paths a load delivers; the built-in path (some 250 m,
\* sampled every 2 cm) is carried but never sampled.
Loaded == sCurveControlPoints # DefaultControlPoints

\* A parameter handler's call of rebuildCurveAndRoad with the fields as given
Rebuild(tens, rs, hs) ==
  /\ Loaded
  /\ IF Len(sCurveControlPoints) < 2
     THEN UNCHANGED <<sampledPts, cumLen, totalLen, sAtPoint, turnAngle>>
     ELSE Install(rebuildCurveAndRoad(sCurveControlPoints, tens, rs, hs))
  /\ UNCHANGED <<sCurveControlPoints, segSpeeds>>

\* v => Math.max(0, parseFloat(v) || defaultSpeed)
ParseSpeed(v) == IF IsNaN(v) \/ v = 0 THEN DefaultSpeed ELSE MathMax(0, v)

\* Segment speeds taken from the list as given, neither padded nor cut
LoadSpeedsAsGiven(given, need) == [i \in 1..Len(given) |-> ParseSpeed(given[i])]

\* The segment speeds loadPathFromJSON derives from the list given for need segments
LoadSpeeds(given, need) ==
  [i \in 1..need |-> ParseSpeed(IF i <= Len(given) THEN given[i] ELSE DefaultSpeed)]

\* The try block of loadPathFromJSON for the control points pts and the build b
\* made of them, closing with resetCameraToPathStart(); placeCameraAtPathT may
\* throw there, into the catch of loadPathFromJSON
LoadPath(file, pts, b) ==
  /\ sCurveControlPoints' = pts
  /\ segSpeeds' = LoadSpeeds(file.segmentSpeeds, Len(pts) - 1)
  /\ Install(b)
  /\ rideProgressS' = 0
  /\ rideProgressT' = 0
  /\ IF PlaceCameraThrows(b.sampledPts)
     THEN lastError' = "alert" /\ UNCHANGED camera
     ELSE lastError' = "none" /\ camera' = placeCameraAtPathT(b.cumLen, b.totalLen, 0)

\* The body of loadPathFromJSON once the text of the file has arrived.  A null
\* entry of data.points makes data.points.map throw after sCurveControlPoints has
\* been emptied.
loadPathFromJSON(file) ==
  IF ~FileValid(file)
  THEN lastError' = "alert" /\ UNCHANGED <<pathVars, rideProgressS, rideProgressT, camera>>
  ELSE IF file.nullPoint
  THEN /\ sCurveControlPoints' = <<>>
       /\ lastError' = "alert"
       /\ UNCHANGED <<segSpeeds, sampledPts, cumLen, totalLen, sAtPoint, turnAngle,
                      rideProgressS, rideProgressT, camera>>
  ELSE LoadPath(file, ControlPointsOf(file),
                rebuildCurveAndRoad(ControlPointsOf(file), tension, resScale, heightScale))

\* main(): await loadPathFromJSON('src/test.json'), then the render loop starts
MainLoadDone(file) ==
  /\ mainPc = "loading"
  /\ loadPathFromJSON(file)
  /\ mainPc' = "running"
  /\ UNCHANGED <<paramVars, isRideActive, isRideLooping, gameVars, pendingImports, probe, gyroVars>>
  /\ UNCHANGED <<markerRide, countdowns>>

\* A stopRide() that leaves the ride as it is
stopRideKeepsRunning == isRideActive' = isRideActive

\* stopRide()
stopRide == isRideActive' = FALSE

\* stopRide() leaves the countdown intervals running; each remembers that it ran
AfterStop(cs) == [k \in DOMAIN cs |-> [cs[k] EXCEPT !.stopped = TRUE]] @@ <<>>

\* importJsonInput "change": stopRide(), then loadPathFromJSON(file) awaits the text
ImportStart ==
  /\ pendingImports < MaxPending
  /\ pendingImports' = pendingImports + 1
  /\ stopRide
  /\ UNCHANGED <<pathVars, paramVars, rideProgressS, rideProgressT, isRideLooping,
                 gameVars, camera, mainPc, probe, gyroVars>>
  /\ lastError' = "none"
  /\ countdowns' = AfterStop(countdowns)
  /\ UNCHANGED markerRide

ImportDone(file) ==
  /\ pendingImports > 0
  /\ pendingImports' = pendingImports - 1
  /\ loadPathFromJSON(file)
  /\ UNCHANGED <<paramVars, isRideActive, isRideLooping, gameVars, mainPc, probe, gyroVars>>
  /\ UNCHANGED <<markerRide, countdowns>>

(***************************************************************************)
(* Parameter fields.                                                       *)
(***************************************************************************)
\* tensionInput.oninput
TensionInput(v) ==
  /\ tension' = v
  /\ Rebuild(v, resScale, heightScale)
  /\ UNCHANGED <<resScale, heightScale, speedWindow, anglePct, rideVars, gameVars,
                 camera, mainPc, pendingImports, probe, gyroVars>>
  /\ lastError' = "none"
  /\ UNCHANGED <<markerRide, countdowns>>

\* resScaleInput.onchange
ResScaleChange(v) ==
  /\ resScale' = v
  /\ Rebuild(tension, v, heightScale)
  /\ UNCHANGED <<tension, heightScale, speedWindow, anglePct, rideVars, gameVars,
                 camera, mainPc, pendingImports, probe, gyroVars>>
  /\ lastError' = "none"
  /\ UNCHANGED <<markerRide, countdowns>>

\* heightScaleInput.onchange
HeightScaleChange(v) ==
  /\ heightScale' = v
  /\ Rebuild(tension, resScale, v)
  /\ UNCHANGED <<tension, resScale, speedWindow, anglePct, rideVars, gameVars,
                 camera, mainPc, pendingImports, probe, gyroVars>>
  /\ lastError' = "none"
  /\ UNCHANGED <<markerRide, countdowns>>

\* roadWidthInput.onchange, roadMaterialPresetInput.onchange, fadeEffectInput.onchange
RoadWidthChange ==
  /\ Rebuild(tension, resScale, heightScale)
  /\ UNCHANGED <<paramVars, rideVars, gameVars, camera, mainPc, pendingImports, probe, gyroVars>>
  /\ lastError' = "none"
  /\ UNCHANGED <<markerRide, countdowns>>

\* wPrevStartInput.oninput .. wNextAccelInput.oninput: speedAtS reads the field
SpeedWindowInput(f, v) ==
  /\ speedWindow' = [speedWindow EXCEPT ![f] = v]
  /\ UNCHANGED <<pathVars, tension, resScale, heightScale, anglePct, rideVars, gameVars,
                 camera, mainPc, pendingImports, probe, gyroVars>>
  /\ lastError' = "none"
  /\ UNCHANGED <<markerRide, countdowns>>

\* p0_20_Input.oninput .. p165_180_Input.oninput: anglePercent reads the field
AnglePctInput(f, v) ==
  /\ anglePct' = [anglePct EXCEPT ![f] = v]
  /\ UNCHANGED <<pathVars, tension, resScale, heightScale, speedWindow, rideVars, gameVars,
                 camera, mainPc, pendingImports, probe, gyroVars>>
  /\ lastError' = "none"
  /\ UNCHANGED <<markerRide, countdowns>>

\* noDamageToggle "change"
NoDamageToggle ==
  /\ noDamageMode' = ~noDamageMode
  /\ UNCHANGED <<pathVars, paramVars, rideVars, playerHearts, wasInsideTargetPrevFrame,
                 camera, mainPc, pendingImports, probe, gyroVars>>
  /\ lastError' = "none"
  /\ UNCHANGED <<markerRide, countdowns>>

(***************************************************************************)
(* The ride clock.                                                         *)
(***************************************************************************)
\* startRide(loop): resetCameraToPathStart() comes first; when it throws, nothing
\* after it runs.
startRide(loop) ==
  /\ rideProgressS' = 0
  /\ rideProgressT' = 0
  /\ IF PlaceCameraThrows(sampledPts)
     THEN /\ lastError' = "TypeError"
          /\ UNCHANGED <<camera, gameVars, isRideLooping, isRideActive>>
     ELSE /\ camera' = placeCameraAtPathT(cumLen, totalLen, 0)
          /\ playerHearts' = 3
          /\ wasInsideTargetPrevFrame' = FALSE
          /\ isRideLooping' = loop
          /\ isRideActive' = TRUE
          /\ lastError' = "none"
          /\ UNCHANGED noDamageMode
  /\ UNCHANGED <<pathVars, paramVars, mainPc, pendingImports, probe, gyroVars>>
  /\ UNCHANGED markerRide

\* The "stop" button: stopRide(), score and hearts back to their start values
StopButton ==
  /\ stopRide
  /\ playerHearts' = 3
  /\ UNCHANGED <<pathVars, paramVars, rideProgressS, rideProgressT, isRideLooping,
                 wasInsideTargetPrevFrame, noDamageMode, camera, mainPc, pendingImports, probe, gyroVars>>
  /\ lastError' = "none"
  /\ countdowns' = AfterStop(countdowns)
  /\ UNCHANGED markerRide

\* The "reset" button: stopRide(); resetCameraToPathStart()
ResetButton ==
  /\ stopRide
  /\ rideProgressS' = 0
  /\ rideProgressT' = 0
  /\ IF PlaceCameraThrows(sampledPts)
     THEN lastError' = "TypeError" /\ UNCHANGED camera
     ELSE camera' = placeCameraAtPathT(cumLen, totalLen, 0) /\ lastError' = "none"
  /\ UNCHANGED <<pathVars, paramVars, isRideLooping, gameVars, mainPc, pendingImports, probe, gyroVars>>
  /\ countdowns' = AfterStop(countdowns)
  /\ UNCHANGED markerRide

\* Step 2 without the frame time: rideProgressS += currentSpeed
AdvanceByFrame(s, dt) == NAdd(s, speedAtS(s))

\* Step 2 of the active branch of renderLoop: rideProgressS += currentSpeed * deltaSeconds
Advance(s, dt) == NAdd(s, NMul(speedAtS(s), dt))

\* Step 3: the end of the path, for the advanced arc length a
AtEnd(a) == NGe(a, totalLen)
EndOfPath(a, looping) ==
  IF AtEnd(a) THEN (IF looping THEN JsMod(a, totalLen) ELSE totalLen) ELSE a

\* The hearts after updateHudAndScoring, for the ride state the frame has reached
HeartsAfter(active, hearts, overlapping) ==
  IF active /\ wasInsideTargetPrevFrame /\ ~overlapping /\ ~noDamageMode
  THEN (IF hearts - 1 >= 0 THEN hearts - 1 ELSE 0)
  ELSE hearts

\* Whether updateHudAndScoring ends the ride: a miss with no heart left
OutOfHearts(active, hearts, overlapping) ==
  active /\ wasInsideTargetPrevFrame /\ ~overlapping /\ HeartsAfter(active, hearts, overlapping) <= 0

\* renderLoop(): one frame of deltaSeconds = dt, the needle overlapping the target or not
renderLoop(dt, overlapping) ==
  /\ mainPc = "running"
  /\ UNCHANGED <<pathVars, paramVars, isRideLooping, noDamageMode, pendingImports, probe, gyroVars>>
  /\ IF isRideActive
     THEN \E a \in {Advance(rideProgressS, dt)} :  \* the advanced arc length, computed once
          LET s == EndOfPath(a, isRideLooping)
              wrapped == AtEnd(a) /\ isRideLooping
              finished == AtEnd(a) /\ ~isRideLooping
              hearts == IF wrapped THEN 3 ELSE playerHearts
          IN /\ rideProgressS' = s
             /\ IF PlaceCameraThrows(sampledPts)
                THEN \* the frame ends here and requests no further frame
                     /\ rideProgressT' = sToT(s)
                     /\ isRideActive' = ~finished
                     /\ playerHearts' = hearts
                     /\ mainPc' = "stopped"
                     /\ lastError' = "TypeError"
                     /\ UNCHANGED <<camera, wasInsideTargetPrevFrame>>
                ELSE /\ rideProgressT' = sToT(s)
                     /\ camera' = placeCameraAtPathT(cumLen, totalLen, s)
                     /\ playerHearts' = HeartsAfter(~finished, hearts, overlapping)
                     /\ isRideActive' = (~finished /\ ~OutOfHearts(~finished, hearts, overlapping))
                     /\ wasInsideTargetPrevFrame' = overlapping
                     /\ lastError' = "none"
                     /\ UNCHANGED mainPc
     ELSE /\ wasInsideTargetPrevFrame' = overlapping
          /\ lastError' = "none"
          /\ UNCHANGED <<rideProgressS, rideProgressT, isRideActive, playerHearts, camera, mainPc>>
  /\ UNCHANGED <<markerRide, countdowns>>

(***************************************************************************)
(* The program.                                                            *)
(***************************************************************************)
Next ==
  \/ \E file \in PathFiles : MainLoadDone(file)
  \/ ImportStart
  \/ \E file \in PathFiles : ImportDone(file)
  \/ \E v \in Tensions : TensionInput(v)
  \/ \E v \in ResScales : ResScaleChange(v)
  \/ \E v \in HeightScales : HeightScaleChange(v)
  \/ RoadWidthChange
  \/ \E f \in DOMAIN WindowFieldValues : \E v \in WindowFieldValues[f] : SpeedWindowInput(f, v)
  \/ \E f \in 1..7 : \E v \in AnglePctValues[f] : AnglePctInput(f, v)
  \/ NoDamageToggle
  \/ \E loop \in BOOLEAN : startRide(loop) /\ UNCHANGED countdowns
  \/ StopButton
  \/ ResetButton
  \/ \E dt \in DeltaSet, overlapping \in BOOLEAN : renderLoop(dt, overlapping)

Spec == Init /\ [][Next]_vars

(***************************************************************************)
(* Loads and rebuilds: every kind of file, and a tension field left with   *)
(* text, between the start of a ride and its frames.                       *)
(***************************************************************************)
\* On a path whose length is not a number the ride never ends; its frames are
\* followed up to this arc length
MaxRide == 3000

NextLoad ==
  \/ \E file \in LoadFiles : MainLoadDone(file)
  \/ ImportStart
  \/ \E file \in LoadFiles : ImportDone(file)
  \/ \E v \in LoadTensions : TensionInput(v)
  \/ \E v \in ResScales : ResScaleChange(v)
  \/ \E v \in HeightScales : HeightScaleChange(v)
  \/ startRide(FALSE) /\ UNCHANGED countdowns
  \/ \E dt \in DeltaSet : rideProgressS < MaxRide /\ renderLoop(dt, TRUE)

SpecLoad == Init /\ [][NextLoad]_vars

(***************************************************************************)
(* The path functions called directly, on the tables of a loaded path.     *)
(***************************************************************************)
\* The state a successful load of file leaves: its control points pts and the
\* build b made of them
LoadedPath(file, pts, b) ==
  /\ sCurveControlPoints = pts
  /\ segSpeeds = LoadSpeeds(file.segmentSpeeds, Len(pts) - 1)
  /\ sampledPts = b.sampledPts
  /\ cumLen = b.cumLen
  /\ totalLen = b.totalLen
  /\ sAtPoint = b.sAtPoint
  /\ turnAngle = b.turnAngle
  /\ rideProgressS = 0
  /\ rideProgressT = 0
  /\ camera = placeCameraAtPathT(b.cumLen, b.totalLen, 0)

LoadedWith(file, tens, rs, hs) ==
  /\ tension = tens
  /\ resScale = rs
  /\ heightScale = hs
  /\ LoadedPath(file, ControlPointsOf(file),
                rebuildCurveAndRoad(ControlPointsOf(file), tens, rs, hs))

InitFn ==
  /\ markerRide = MarkerStart
  /\ countdowns = <<>>
  /\ \E file \in ProbeFiles, tens \in Tensions, rs \in ProbeResScales, hs \in HeightScales :
        LoadedWith(file, tens, rs, hs)
  /\ speedWindow = DefaultSpeedWindow
  /\ anglePct = DefaultAnglePct
  /\ isRideActive = FALSE
  /\ isRideLooping = FALSE
  /\ playerHearts = 3
  /\ wasInsideTargetPrevFrame = FALSE
  /\ noDamageMode = FALSE
  /\ yawSensitivity = One
  /\ rollRelativeDegreesSmoothed = 0
  /\ SensorOff
  /\ mainPc = "running"
  /\ pendingImports = 0
  /\ lastError = "none"
  /\ probe = NoProbe

\* The arc lengths of the calls: the grid and the entries of the table
Arguments == ProbeArguments \cup {totalLen} \cup {cumLen[i] : i \in 1..Len(cumLen)}

CallDistanceToIndex(s) ==
  /\ probe' = [fn |-> "distanceToIndex", arg |-> s, result |-> distanceToIndex(s)]
  /\ UNCHANGED <<pathVars, paramVars, rideVars, gameVars, camera, mainPc, pendingImports,
                 gyroVars>>
  /\ lastError' = "none"
  /\ UNCHANGED <<markerRide, countdowns>>

CallSToT(s) ==
  /\ probe' = [fn |-> "sToT", arg |-> s, result |-> sToT(s)]
  /\ UNCHANGED <<pathVars, paramVars, rideVars, gameVars, camera, mainPc, pendingImports,
                 gyroVars>>
  /\ lastError' = "none"
  /\ UNCHANGED <<markerRide, countdowns>>

CallSpeedAtS(s) ==
  /\ probe' = [fn |-> "speedAtS", arg |-> s, result |-> speedAtS(s)]
  /\ UNCHANGED <<pathVars, paramVars, rideVars, gameVars, camera, mainPc, pendingImports,
                 gyroVars>>
  /\ lastError' = "none"
  /\ UNCHANGED <<markerRide, countdowns>>

NextFn ==
  \/ \E s \in Arguments : CallDistanceToIndex(s)
  \/ \E s \in Arguments : CallSToT(s)
  \/ \E s \in Arguments : CallSpeedAtS(s)
  \/ \E f \in DOMAIN ProbeWindowValues : \E v \in ProbeWindowValues[f] : SpeedWindowInput(f, v)
  \/ \E f \in 1..7 : \E v \in ProbeAnglePctValues[f] : AnglePctInput(f, v)

SpecFn == InitFn /\ [][NextFn]_vars

(***************************************************************************)
(* The speed profile under window fields in and out of order, and the turn *)
(* angles it takes its severity from.                                      *)
(***************************************************************************)
\* Control points in metres, for computeTurnAngles alone: a zig-zag of six points
\* across the z axis, and a staircase of right angles
ZigZagPoints ==
  << Vec(0, 0, 0), Vec(12000, 0, 12000), Vec(-12000, 0, 24000), Vec(12000, 0, 36000),
     Vec(-12000, 0, 48000), Vec(0, 0, 60000) >>
TurnPaths ==
  { ZigZagPoints,
    << Vec(0, 0, 0), Vec(12000, 0, 12000), Vec(0, 0, 24000), Vec(12000, 0, 36000) >> }

CallComputeTurnAngles(pts) ==
  /\ probe' = [fn |-> "computeTurnAngles", arg |-> pts, result |-> computeTurnAngles(pts)]
  /\ UNCHANGED <<pathVars, paramVars, rideVars, gameVars, camera, mainPc, pendingImports,
                 gyroVars>>
  /\ lastError' = "none"
  /\ UNCHANGED <<markerRide, countdowns>>

\* What a user may leave in the window fields: the defaults, an approach window
\* that ends before it starts, an exit hold that outlasts the acceleration
OrderWindowValues ==
  [wPrevStart |-> {625}, wPrevEnd |-> {1000, 400}, wNextHold |-> {0, 600}, wNextAccel |-> {500}]

NextWindow ==
  \/ \E s \in Arguments : CallSpeedAtS(s)
  \/ \E f \in DOMAIN OrderWindowValues : \E v \in OrderWindowValues[f] : SpeedWindowInput(f, v)
  \/ \E pts \in TurnPaths : CallComputeTurnAngles(pts)

SpecWindow == InitFn /\ [][NextWindow]_vars

(***************************************************************************)
(* The steering needle: the first statement of every frame, for the angles *)
(* the orientation handler may have left and the sensitivities the field   *)
(* may hold.                                                               *)
(***************************************************************************)
\* The steering lock, in degrees
MaxRollDegrees == 45
\* Orientation events are followed until the smoothed roll reaches this angle
MaxTilt == 20000

\* clampNumber((rollRelativeDegreesSmoothed * yawSensitivity) / maxRollDegrees, -1, 1)
needleNormalized(roll, sensitivity) ==
  clampNumber((roll * sensitivity) \div (MaxRollDegrees * Unit), 0 - One, One)

\* gyroSensitivityInput "input": a value that is not finite becomes 1.0
GyroSensitivityInput(v) ==
  /\ yawSensitivity' = IF IsNum(v) THEN v ELSE One
  /\ lastError' = "none"
  /\ UNCHANGED <<pathVars, paramVars, rideVars, gameVars, camera, mainPc, pendingImports,
                 probe, rollRelativeDegreesSmoothed, sensorVars>>
  /\ UNCHANGED <<markerRide, countdowns>>

\* The needle of a frame
FrameNeedle ==
  /\ probe' = [fn |-> "needleNormalized", arg |-> rollRelativeDegreesSmoothed,
               result |-> needleNormalized(rollRelativeDegreesSmoothed, yawSensitivity)]
  /\ lastError' = "none"
  /\ UNCHANGED <<pathVars, paramVars, rideVars, gameVars, camera, mainPc, pendingImports,
                 gyroVars>>
  /\ UNCHANGED <<markerRide, countdowns>>

\* Smoothed steering angles, in thousandths of a degree, from a device held flat
\* to one turned over, on both sides of the steering lock
RollSet == {0 - 180000, 0 - 45001, 0 - 45000, 0 - 20000, 0, 20000, 45000, 45001, 180000}
\* What a user may leave in the sensitivity field: text, zero, numbers below and
\* above one, a negative number, ten
SensitivityValues == {NaN, 0, 500, 1000, 3000, 0 - 2000, 10000}

InitGyro ==
  /\ markerRide = MarkerStart
  /\ countdowns = <<>>
  /\ sCurveControlPoints = DefaultControlPoints
  /\ segSpeeds = DefaultSegSpeeds
  /\ sampledPts = <<>>
  /\ cumLen = <<>>
  /\ totalLen = 0
  /\ sAtPoint = <<>>
  /\ turnAngle = <<>>
  /\ tension = 700
  /\ resScale \in ResScales
  /\ heightScale \in HeightScales
  /\ speedWindow = DefaultSpeedWindow
  /\ anglePct = DefaultAnglePct
  /\ rideProgressS = 0
  /\ rideProgressT = 0
  /\ isRideActive = FALSE
  /\ isRideLooping = FALSE
  /\ playerHearts = 3
  /\ wasInsideTargetPrevFrame = FALSE
  /\ noDamageMode = FALSE
  /\ yawSensitivity = One
  /\ rollRelativeDegreesSmoothed \in RollSet
  /\ isGyroEnabled = TRUE
  /\ listening = TRUE
  /\ rollBaselineDegrees = 0
  /\ rollDegreesSmoothed = 0
  /\ gyroResult = "true"
  /\ gyroPending = 0
  /\ platform = "permission"
  /\ camera = NoCamera
  /\ mainPc = "loading"
  /\ pendingImports = 0
  /\ lastError = "none"
  /\ probe = NoProbe

NextGyro ==
  \/ \E v \in SensitivityValues : GyroSensitivityInput(v)
  \/ FrameNeedle

SpecGyro == InitGyro /\ [][NextGyro]_vars

(***************************************************************************)
(* The gyroscope: main() awaiting enableGyroscope() after the initial load, *)
(* the enable button, orientation events and the needle of the frames.    *)
(***************************************************************************)
Platforms == {"permission", "noApi", "unsupported"}
\* What requestPermission() may do
PermissionOutcomes == {"granted", "denied", "throws"}

\* centerGyroscopeHeading()
centerGyroscopeHeading ==
  /\ rollBaselineDegrees' = rollDegreesSmoothed
  /\ rollRelativeDegreesSmoothed' = 0

\* enableGyroscope() from the point where requestPermission has settled with
\* outcome; on a platform without it the outcome plays no part.  Everything runs
\* inside the try, so a throw of placeCameraAtPathT ends in return false.
enableGyroscope(outcome) ==
  IF platform = "unsupported" \/ (platform = "permission" /\ outcome # "granted")
  THEN /\ gyroResult' = "false"
       /\ UNCHANGED <<isGyroEnabled, listening, rollBaselineDegrees,
                      rollRelativeDegreesSmoothed, camera>>
  ELSE /\ listening' = TRUE
       /\ isGyroEnabled' = TRUE
       /\ centerGyroscopeHeading
       /\ IF PlaceCameraThrows(sampledPts)
          THEN gyroResult' = "false" /\ UNCHANGED camera
          ELSE /\ gyroResult' = "true"
               /\ camera' = placeCameraAtPathT(cumLen, totalLen, rideProgressS)

\* disableGyroscope()
disableGyroscope ==
  /\ listening' = FALSE
  /\ isGyroEnabled' = FALSE

\* main(): enableGyroscope() settles, then the render loop starts
MainEnableGyro(outcome) ==
  /\ mainPc = "enabling"
  /\ mainPc' = "running"
  /\ enableGyroscope(outcome)
  /\ lastError' = "none"
  /\ UNCHANGED <<pathVars, paramVars, rideVars, gameVars, pendingImports, probe,
                 yawSensitivity, rollDegreesSmoothed, gyroPending, platform>>
  /\ UNCHANGED <<markerRide, countdowns>>

\* enableGyroButton "click": disable when enabled; otherwise enableGyroscope(),
\* which awaits requestPermission where it exists and runs through where not
EnableGyroClick ==
  /\ IF isGyroEnabled
     THEN /\ disableGyroscope
          /\ lastError' = "none"
          /\ UNCHANGED <<rollBaselineDegrees, rollRelativeDegreesSmoothed, camera,
                         gyroResult, gyroPending>>
     ELSE IF platform = "permission"
     THEN /\ gyroPending < MaxPending
          /\ gyroPending' = gyroPending + 1
          /\ lastError' = "none"
          /\ UNCHANGED <<isGyroEnabled, listening, rollBaselineDegrees,
                         rollRelativeDegreesSmoothed, camera, gyroResult>>
     ELSE /\ enableGyroscope("granted")
          /\ lastError' = IF gyroResult' = "false" THEN "alert" ELSE "none"
          /\ UNCHANGED gyroPending
  /\ UNCHANGED <<pathVars, paramVars, rideVars, gameVars, mainPc, pendingImports, probe,
                 yawSensitivity, rollDegreesSmoothed, platform>>
  /\ UNCHANGED <<markerRide, countdowns>>

\* requestPermission settles for a click on the enable button
EnableGyroResolve(outcome) ==
  /\ gyroPending > 0
  /\ gyroPending' = gyroPending - 1
  /\ enableGyroscope(outcome)
  /\ lastError' = IF gyroResult' = "false" THEN "alert" ELSE "none"
  /\ UNCHANGED <<pathVars, paramVars, rideVars, gameVars, mainPc, pendingImports, probe,
                 yawSensitivity, rollDegreesSmoothed, platform>>
  /\ UNCHANGED <<markerRide, countdowns>>

\* handleDeviceOrientationEvent(e) for an event whose roll (gamma, or the folded
\* beta in landscape) is rawRoll, NaN standing for an event without numbers
handleDeviceOrientationEvent(rawRoll) ==
  /\ listening
  /\ rollDegreesSmoothed < MaxTilt
  /\ IF IsNaN(rawRoll)
     THEN UNCHANGED <<rollDegreesSmoothed, rollRelativeDegreesSmoothed>>
     ELSE LET smoothed == rollDegreesSmoothed
                            + ((rawRoll - rollDegreesSmoothed) * 150) \div Unit
              relative == smoothed - rollBaselineDegrees
          IN /\ rollDegreesSmoothed' = smoothed
             /\ rollRelativeDegreesSmoothed' =
                  rollRelativeDegreesSmoothed
                    + ((relative - rollRelativeDegreesSmoothed) * 120) \div Unit
  /\ lastError' = "none"
  /\ UNCHANGED <<pathVars, paramVars, rideVars, gameVars, camera, mainPc, pendingImports,
                 probe, yawSensitivity, isGyroEnabled, listening, rollBaselineDegrees,
                 gyroResult, gyroPending, platform>>
  /\ UNCHANGED <<markerRide, countdowns>>

\* The rolls of the orientation events: a device tilted by 60 degrees, and an
\* event without numbers
DeviceRolls == {60000, NaN}

\* The states in which main() awaits enableGyroscope(): the initial load has
\* failed, leaving the module as constructed, or has installed its path
InitSensor ==
  /\ markerRide = MarkerStart
  /\ countdowns = <<>>
  /\ \/ /\ sCurveControlPoints = DefaultControlPoints
        /\ segSpeeds = DefaultSegSpeeds
        /\ sampledPts = <<>>
        /\ cumLen = <<>>
        /\ totalLen = 0
        /\ sAtPoint = <<>>
        /\ turnAngle = <<>>
        /\ rideProgressS = 0
        /\ rideProgressT = 0
        /\ camera = NoCamera
        /\ tension = 700
        /\ resScale \in ResScales
        /\ heightScale \in HeightScales
        /\ lastError = "alert"
     \/ /\ \E file \in PathFiles, rs \in ResScales, hs \in HeightScales :
             LoadedWith(file, 700, rs, hs)
        /\ lastError = "none"
  /\ speedWindow = DefaultSpeedWindow
  /\ anglePct = DefaultAnglePct
  /\ isRideActive = FALSE
  /\ isRideLooping = FALSE
  /\ playerHearts = 3
  /\ wasInsideTargetPrevFrame = FALSE
  /\ noDamageMode = FALSE
  /\ yawSensitivity = One
  /\ rollRelativeDegreesSmoothed = 0
  /\ isGyroEnabled = FALSE
  /\ listening = FALSE
  /\ rollBaselineDegrees = 0
  /\ rollDegreesSmoothed = 0
  /\ gyroResult = "none"
  /\ gyroPending = 0
  /\ platform \in Platforms
  /\ mainPc = "enabling"
  /\ pendingImports = 0
  /\ probe = NoProbe

NextSensor ==
  \/ \E outcome \in PermissionOutcomes : MainEnableGyro(outcome)
  \/ EnableGyroClick
  \/ \E outcome \in PermissionOutcomes : EnableGyroResolve(outcome)
  \/ \E rawRoll \in DeviceRolls : handleDeviceOrientationEvent(rawRoll)
  \/ mainPc = "running" /\ FrameNeedle

SpecSensor == InitSensor /\ [][NextSensor]_vars

(***************************************************************************)
(* The score-marker variant (src/src/main.ts): the ride runs on a duration, *)
(* maxScore markers lie at t = 1/maxScore .. 1, and a marker is scored when *)
(* the needle overlaps the target on the frame that passes it.              *)
(***************************************************************************)
\* deltaSeconds / rideDurationSeconds of a frame, in thousandths of the ride
MarkerSteps == {50, 400}
\* What the maxScore field may be set to
MaxScoreValues == {3, 0}

othersVars == <<pathVars, paramVars, rideVars, gameVars, camera, mainPc, pendingImports,
                lastError, probe, gyroVars, countdowns>>

\* updateHudAndScoring: the score point reached, the heart lost on leaving the target
MarkerHud(g, overlapping) ==
  LET currentScorePointIndex == (g.rideProgressT * g.maxScore) \div Unit
      passed == g.isRideActive /\ currentScorePointIndex > g.lastScorePointIndex
      scores == /\ passed /\ currentScorePointIndex > 0
                /\ g.lastScorePointIndex < g.maxScore /\ overlapping
      g1 == [g EXCEPT !.playerScore = IF scores THEN MathMin(g.maxScore, @ + 1) ELSE @,
                      !.lastScorePointIndex = IF passed THEN currentScorePointIndex ELSE @]
      leaves == g1.isRideActive /\ g1.wasInsideTargetPrevFrame /\ ~overlapping
      hearts == IF leaves /\ ~g1.noDamageMode THEN MathMax(0, g1.playerHearts - 1)
                ELSE g1.playerHearts
  IN [g1 EXCEPT !.playerHearts = hearts,
                !.playerScore = IF leaves /\ ~g1.noDamageMode THEN MathMax(0, @ - 1) ELSE @,
                !.isRideActive = IF leaves /\ hearts <= 0 THEN FALSE ELSE @,
                !.wasInsideTargetPrevFrame = overlapping]

\* renderLoop of the variant, for a frame that is the fraction step of the ride long
MarkerFrame(step, overlapping) ==
  LET g == markerRide
      t1 == g.rideProgressT + step
      t2 == IF t1 >= Unit THEN (IF g.isRideLooping THEN t1 % Unit ELSE Unit) ELSE t1
      lap == g.isRideLooping /\ t2 < step
      moved == [g EXCEPT !.rideProgressT = t2,
                         !.isRideActive = ~(t1 >= Unit /\ ~g.isRideLooping),
                         !.lastScorePointIndex = IF lap THEN -1 ELSE @,
                         !.playerScore = IF lap THEN 0 ELSE @,
                         !.playerHearts = IF lap THEN 3 ELSE @,
                         !.clean = @ /\ overlapping]
      g1 == MarkerHud(IF g.isRideActive THEN moved ELSE g, overlapping)
      justFinished == ~g1.isRideActive /\ g1.rideProgressT >= Unit
  IN /\ markerRide' =
          IF justFinished /\ g1.lastScorePointIndex < g1.maxScore
          THEN [MarkerHud(g1, overlapping) EXCEPT
                  !.lastScorePointIndex = (g1.rideProgressT * g1.maxScore) \div Unit]
          ELSE g1
     /\ UNCHANGED othersVars

\* The "start" button of the variant: startRide(duration, loop)
MarkerStartClick(loop) ==
  /\ markerRide' = [markerRide EXCEPT !.isRideLooping = loop, !.rideProgressT = 0,
                                      !.isRideActive = TRUE, !.lastScorePointIndex = -1,
                                      !.clean = (markerRide.playerScore = 0)]
  /\ UNCHANGED othersVars

\* The "restart" button of the variant: score and hearts back, then startRide
MarkerRestartClick(loop) ==
  /\ markerRide' = [markerRide EXCEPT !.playerScore = 0, !.playerHearts = 3,
                                      !.wasInsideTargetPrevFrame = FALSE,
                                      !.isRideLooping = loop, !.rideProgressT = 0,
                                      !.isRideActive = TRUE, !.lastScorePointIndex = -1,
                                      !.clean = TRUE]
  /\ UNCHANGED othersVars

\* The "stop" button of the variant
MarkerStopClick ==
  /\ markerRide' = [markerRide EXCEPT !.isRideActive = FALSE, !.playerScore = 0,
                                      !.playerHearts = 3, !.lastScorePointIndex = -1,
                                      !.clean = FALSE]
  /\ UNCHANGED othersVars

\* maxScoreInput "input": a positive number is taken, and the score starts over
MaxScoreInput(v) ==
  /\ markerRide' = IF IsNum(v) /\ v > 0
                   THEN [markerRide EXCEPT !.maxScore = v, !.playerScore = 0,
                                           !.lastScorePointIndex = -1, !.clean = FALSE]
                   ELSE markerRide
  /\ UNCHANGED othersVars

\* noDamageToggle "change" of the variant
MarkerNoDamageToggle ==
  /\ markerRide' = [markerRide EXCEPT !.noDamageMode = ~@]
  /\ UNCHANGED othersVars

NextMarker ==
  \/ \E step \in MarkerSteps, overlapping \in BOOLEAN : MarkerFrame(step, overlapping)
  \/ \E loop \in BOOLEAN : MarkerStartClick(loop)
  \/ \E loop \in BOOLEAN : MarkerRestartClick(loop)
  \/ MarkerStopClick
  \/ \E v \in MaxScoreValues : MaxScoreInput(v)
  \/ MarkerNoDamageToggle

SpecMarker == Init /\ [][NextMarker]_vars

(***************************************************************************)
(* One ride to its end: a path is loaded, a ride that does not loop is      *)
(* started once, and requestAnimationFrame keeps the frames coming.         *)
(***************************************************************************)
\* The bend with the speeds of its file, with slower ones, and with a negative
\* speed for its second segment, which loadPathFromJSON turns into 0; a zig-zag; a
\* path of length zero
LiveFiles ==
  PathFiles \cup
  { PathFile(<<Pt(0, 0), Pt(40, 0), Pt(40, 30)>>, <<200, -400>>),
    PathFile(<<Pt(0, 0), Pt(40, 0), Pt(40, 30)>>, <<100, 300>>),
    PathFile(<<Pt(0, 0), Pt(40, 0), Pt(40, 40), Pt(80, 40)>>, <<1000>>) }

\* The one start of the ride, once main() has loaded the path
StartOnce ==
  /\ mainPc = "running" /\ ~isRideActive /\ rideProgressS = 0
  /\ startRide(FALSE)
  /\ UNCHANGED countdowns

\* A frame on which the needle overlaps the target
Frame == \E dt \in DeltaSet : renderLoop(dt, TRUE)

NextLive ==
  \/ \E file \in LiveFiles : MainLoadDone(file)
  \/ StartOnce
  \/ Frame

SpecLive == Init /\ [][NextLive]_vars /\ WF_vars(Frame)

(***************************************************************************)
(* The countdown of the calibration start button: three ticks of an         *)
(* interval, the last of which calls startRide, against the handlers that   *)
(* call stopRide.                                                           *)
(***************************************************************************)
\* Countdown intervals that may run at one time
MaxCountdowns == 2

RemoveAt(seq, k) == [n \in 1..(Len(seq) - 1) |-> IF n < k THEN seq[n] ELSE seq[n + 1]] @@ <<>>

\* calibrationStartButton "click" with the countdown overlay in the page: count = 3
\* and setInterval; stopped is history, set by AfterStop
CalibrationStartClick ==
  /\ Len(countdowns) < MaxCountdowns
  /\ countdowns' = Append(countdowns, [count |-> 3, stopped |-> FALSE])
  /\ UNCHANGED <<pathVars, paramVars, rideVars, gameVars, camera, mainPc, pendingImports,
                 probe, gyroVars, markerRide>>
  /\ lastError' = "none"

\* The callback of the k-th interval: count -= 1, and at 0 clearInterval and
\* startRide(!!loopCheckbox.checked)
CountdownTick(k, loop) ==
  IF countdowns[k].count - 1 <= 0
  THEN /\ countdowns' = RemoveAt(countdowns, k)
       /\ startRide(loop)
  ELSE /\ countdowns' = [countdowns EXCEPT ![k].count = @ - 1]
       /\ UNCHANGED <<pathVars, paramVars, rideVars, gameVars, camera, mainPc, pendingImports,
                      probe, gyroVars, markerRide>>
       /\ lastError' = "none"

\* centerGyroButton "click": stopRide(), and the calibration modal is shown
CenterGyroClick ==
  /\ stopRide
  /\ countdowns' = AfterStop(countdowns)
  /\ UNCHANGED <<pathVars, paramVars, rideProgressS, rideProgressT, isRideLooping, gameVars,
                 camera, mainPc, pendingImports, probe, gyroVars, markerRide>>
  /\ lastError' = "none"

NextCountdown ==
  \/ \E file \in PathFiles : MainLoadDone(file)
  \/ CalibrationStartClick
  \/ \E k \in DOMAIN countdowns : \E loop \in BOOLEAN : CountdownTick(k, loop)
  \/ StopButton
  \/ ResetButton
  \/ CenterGyroClick
  \/ Frame

SpecCountdown == Init /\ [][NextCountdown]_vars

(***************************************************************************)
(* The ride clock: C1 .. C6.                                               *)
(***************************************************************************)
\* C1: when one frame's advance makes progressS >= totalLength, a looping ride ends
\* the frame with progressS wrapped into [0, totalLength) and still Active; a ride
\* that does not loop ends it with progressS = totalLength and Idle.
EndOfPathWrapsOrClamps ==
  [][\A dt \in DeltaSet, overlapping \in BOOLEAN :
       (/\ renderLoop(dt, overlapping)
        /\ isRideActive
        /\ NGe(NAdd(rideProgressS, NMul(speedAtS(rideProgressS), dt)), totalLen))
       => IF isRideLooping
          THEN NGe(rideProgressS', 0) /\ NLt(rideProgressS', totalLen) /\ isRideActive'
          ELSE rideProgressS' = totalLen /\ ~isRideActive']_vars

\* C2: in every reachable state 0 <= progressS <= totalLength, for the current
\* totalLength.
ProgressWithinPath == NGe(rideProgressS, 0) /\ NLe(rideProgressS, totalLen)

\* C3: startRide, called in any state, leaves the ride Active with progressS = 0
\* and progressT = 0.
StartLeavesRideActive ==
  [][\A loop \in BOOLEAN :
       startRide(loop) => (isRideActive' /\ rideProgressS' = 0 /\ rideProgressT' = 0)]_vars

\* C4: stopRide, called by the stop button or by an import, leaves the ride Idle
\* and leaves progressS and progressT as they were.
StopKeepsProgress ==
  [][(StopButton \/ ImportStart)
       => (/\ ~isRideActive'
           /\ rideProgressS' = rideProgressS
           /\ rideProgressT' = rideProgressT)]_vars

\* A looping ride ends only by stopRide or with the last heart lost, and only the
\* stop button gives the hearts back to an Idle ride: here stopRide has run on a
\* ride that had left the start.
StoppedMidRide ==
  /\ isRideLooping
  /\ ~isRideActive
  /\ playerHearts = 3
  /\ NGt(rideProgressS, 0)
  /\ NLt(rideProgressS, totalLen)

\* C5: the reset button sets progressS = 0 and places the camera for s = 0 within
\* the same call.
ResetPlacesCamera ==
  [][ResetButton
       => (/\ rideProgressS' = 0
           /\ camera' = placeCameraAtPathT(cumLen, totalLen, 0))]_vars

\* C6: a frame changes progressS only while the ride is Active, and then to
\* progressS + speedAtS(progressS) * deltaSeconds, wrapped or clamped at the end of
\* the path; a frame of an Idle ride leaves progressS as it was.  (A frame that changes
\* nothing at all is the case of an advance by 0 and needs no evaluation.)
FrameAdvancesBySpeedTimesDelta ==
  [][\A dt \in DeltaSet, overlapping \in BOOLEAN :
       (vars' # vars /\ renderLoop(dt, overlapping))
       => IF isRideActive
          THEN LET advanced == NAdd(rideProgressS, NMul(speedAtS(rideProgressS), dt))
               IN rideProgressS' =
                    IF NGe(advanced, totalLen)
                    THEN (IF isRideLooping THEN JsMod(advanced, totalLen) ELSE totalLen)
                    ELSE advanced
          ELSE rideProgressS' = rideProgressS]_vars

\* Progress leaves 0 only by the advance of a frame: here a frame has advanced an
\* Active ride to a place inside the path and put the camera there.
RideAdvanced ==
  /\ isRideActive
  /\ NGt(rideProgressS, 0)
  /\ NLt(rideProgressS, totalLen)
  /\ camera.at = rideProgressS

(***************************************************************************)
(* The path functions: C7 .. C10.                                          *)
(***************************************************************************)
\* C7: for every s in [0, totalLength], whatever the segment speeds, the window
\* fractions and the severity percentages are, speedAtS(s) >= 0.
SpeedNeverNegative ==
  (probe.fn = "speedAtS" /\ NGe(probe.arg, 0) /\ NLe(probe.arg, totalLen))
    => NGe(probe.result, 0)

\* C8: on a table of total length > 0, sToT(0) = 0 and sToT(s) = 1 for every
\* s >= totalLength.
SToTEndpoints ==
  (probe.fn = "sToT" /\ totalLen > 0)
    => /\ probe.arg = 0 => probe.result = 0
       /\ NGe(probe.arg, totalLen) => probe.result = One

\* C9 as stated: for any s, distanceToIndex(s) is a valid index of the table and the
\* smallest index i with cumLen[i] >= clamp(s, 0, totalLength).
DistanceToIndexSmallestForAnyS ==
  probe.fn = "distanceToIndex"
    => /\ probe.result \in 0..(Len(cumLen) - 1)
       /\ NGe(cumLen[probe.result + 1], Clamp(probe.arg, 0, totalLen))
       /\ \A j \in 1..probe.result : NLt(cumLen[j], Clamp(probe.arg, 0, totalLen))

\* C9, amended: distanceToIndex(s) is a valid index of the table; for a number s it
\* is the smallest index i with cumLen[i] >= clamp(s, 0, totalLength), and for
\* s = NaN, which no entry of the table compares with, it is 0.
DistanceToIndexSmallest ==
  probe.fn = "distanceToIndex"
    => /\ probe.result \in 0..(Len(cumLen) - 1)
       /\ IsNum(probe.arg)
            => /\ cumLen[probe.result + 1] >= Clamp(probe.arg, 0, totalLen)
               /\ \A j \in 1..probe.result : cumLen[j] < Clamp(probe.arg, 0, totalLen)
       /\ IsNaN(probe.arg) => probe.result = 0

\* distanceToIndex has been called with an arc length inside the path that falls
\* strictly between two entries of the table.
IndexInsideTable ==
  /\ probe.fn = "distanceToIndex"
  /\ NGt(probe.arg, 0)
  /\ NLt(probe.arg, totalLen)
  /\ probe.result > 0
  /\ cumLen[probe.result + 1] > probe.arg

\* C10: distanceToIndex is monotonic over one table: s1 <= s2 implies
\* distanceToIndex(s1) <= distanceToIndex(s2).
DistanceToIndexMonotonic ==
  \A s1, s2 \in Arguments :
    NLe(s1, s2) => distanceToIndex(s1) <= distanceToIndex(s2)

\* distanceToIndex has been called, and a larger arc length has a larger index.
IndexGrows ==
  /\ probe.fn = "distanceToIndex"
  /\ \E s \in Arguments : NLt(probe.arg, s) /\ probe.result < distanceToIndex(s)


\* C11: after every curve build the cumulative-length table has as many entries as
\* the sampled-point table, starts at 0, never decreases, and ends with totalLen.
CumLenTableWellFormed ==
  /\ Len(cumLen) = Len(sampledPts)
  /\ Len(cumLen) > 0 =>
       /\ cumLen[1] = 0
       /\ \A i \in 1..(Len(cumLen) - 1) : NLe(cumLen[i], cumLen[i + 1])
       /\ IsNum(totalLen)
       /\ cumLen[Len(cumLen)] = totalLen


\* A load of file that gets past the checks and the conversion of the points
Accepted(file) == FileValid(file) /\ ~file.nullPoint

\* The step in which a load of file completes, at start-up or after an import
LoadCompletes(file) == MainLoadDone(file) \/ ImportDone(file)

\* C12: a load whose speed list is shorter than points.length - 1 keeps every
\* supplied entry at its supplied value, 0 included, and sets every missing entry
\* to 10.
ShortSpeedListKept ==
  [][\A file \in LoadFiles :
       (/\ Accepted(file)
        /\ Len(file.segmentSpeeds) < Len(file.points) - 1
        /\ LoadCompletes(file))
       => /\ Len(segSpeeds') = Len(file.points) - 1
          /\ \A i \in 1..Len(segSpeeds') :
               segSpeeds'[i] = IF i <= Len(file.segmentSpeeds)
                               THEN file.segmentSpeeds[i]
                               ELSE DefaultSpeed]_vars


\* C13: after a load that installs a path there is one segment speed per segment
\* (control points minus one): a shorter list is padded with the default speed, a
\* longer one is cut to its first points.length - 1 entries.
SpeedPerSegment ==
  [][\A file \in LoadFiles :
       (Accepted(file) /\ LoadCompletes(file))
       => /\ Len(segSpeeds') = Len(sCurveControlPoints') - 1
          /\ \A i \in 1..Len(segSpeeds') :
               segSpeeds'[i] = IF i <= Len(file.segmentSpeeds)
                               THEN ParseSpeed(file.segmentSpeeds[i])
                               ELSE DefaultSpeed]_vars

\* A path of two segments loaded from a file that lists three speeds
LongSpeedListCut == Len(sCurveControlPoints) = 3 /\ segSpeeds = <<300, 500>>


\* C14: a path load that fails surfaces an error and leaves the previous path
\* state as it was: control points, segment speeds, sampled points, cumulative
\* lengths, totalLen, anchors of the control points and turn angles.
FailedLoadKeepsPath ==
  [][\A file \in LoadFiles :
       (LoadCompletes(file) /\ lastError' = "alert") => UNCHANGED pathVars]_vars


\* C15: on every frame the needle lies in [-1, 1], whatever the smoothed steering
\* angle and the sensitivity are, also when their product is beyond the steering
\* lock of 45 degrees.
NeedleWithinRange ==
  probe.fn = "needleNormalized"
    => IsNum(probe.result) /\ probe.result >= 0 - One /\ probe.result <= One

\* A frame whose steering angle times sensitivity is beyond the steering lock
NeedleAtLock ==
  /\ probe.fn = "needleNormalized"
  /\ probe.arg * yawSensitivity > MaxRollDegrees * Unit * Unit
  /\ probe.result = One


\* C16: rebuildCurveAndRoad run again with the same control points, tension,
\* resolution scale and height scale leaves totalLen and the coordinates of the
\* sampled points as the run before left them: the height offset does not pile up.
RebuildRepeatable ==
  [][(/\ UNCHANGED <<paramVars, rideVars, gameVars>>
      /\ \/ RoadWidthChange
         \/ TensionInput(tension)
         \/ ResScaleChange(resScale)
         \/ HeightScaleChange(heightScale))
     => (sampledPts' = sampledPts /\ totalLen' = totalLen)]_vars

\* A loaded path rebuilt on a change of the tension, whose last sample carries the
\* height offset of its arc length once
RebuiltWithOffset ==
  /\ Loaded
  /\ tension = 500
  /\ heightScale # 0
  /\ totalLen > 0
  /\ Len(sampledPts) >= 2
  /\ sampledPts[Len(sampledPts)].y = NMul(totalLen, heightScale)
  /\ sampledPts[Len(sampledPts)].y # 0


\* s lies inside segment k (counted from 0), beyond the fraction nextAccel of it
\* unless k is the first segment and before the fraction prevStart of it unless k
\* is the last
DeepInside(s, k) ==
  LET sA == At(sAtPoint, k)
      sB == At(sAtPoint, k + 1)
  IN /\ IsNum(s) /\ IsNum(sA) /\ IsNum(sB)
     /\ sA < s /\ s < sB
     /\ k > 0 => /\ IsNum(speedWindow.wNextAccel)
                 /\ (s - sA) * Unit > speedWindow.wNextAccel * (sB - sA)
     /\ k < Len(segSpeeds) - 1 => /\ IsNum(speedWindow.wPrevStart)
                                  /\ (s - sA) * Unit < speedWindow.wPrevStart * (sB - sA)

\* C17 as stated: for s inside segment k, beyond nextAccel (the exit window of the
\* turn at its start) and before prevStart (the approach window of the turn at its
\* end), speedAtS(s) is exactly segSpeeds[k]; the first segment has only the
\* approach window, the last only the exit window.
BaseSpeedBetweenWindowsAsStated ==
  \A s \in Arguments : \A k \in 0..(Len(segSpeeds) - 1) :
     DeepInside(s, k) => speedAtS(s) = At(segSpeeds, k)

\* The window fields are in order: each window ends no earlier than it starts
WindowsInOrder ==
  /\ NLe(speedWindow.wPrevStart, speedWindow.wPrevEnd)
  /\ NLe(speedWindow.wNextHold, speedWindow.wNextAccel)

\* C17, amended: the same, for window fields that are in order (prevStart <=
\* prevEnd and nextHold <= nextAccel).
BaseSpeedBetweenWindows ==
  WindowsInOrder =>
    \A s \in Arguments : \A k \in 0..(Len(segSpeeds) - 1) :
       DeepInside(s, k) => speedAtS(s) = At(segSpeeds, k)

\* speedAtS was called between the windows of a segment that has a turn at either
\* end, with the window fields in order, and gave the speed of the segment
CalledBetweenWindows ==
  /\ probe.fn = "speedAtS"
  /\ WindowsInOrder
  /\ \E k \in 1..(Len(segSpeeds) - 2) :
        DeepInside(probe.arg, k) /\ probe.result = At(segSpeeds, k)
                                /\ probe.result = speedAtS(probe.arg)


\* C18 as stated: for the control points (0,0,0), (12,0,12), (-12,0,24), (12,0,36),
\* (-12,0,48), (0,0,60) the turn angle at each of the four interior points is a
\* right angle, give or take two degrees.
ZigZagTurnsRight ==
  (probe.fn = "computeTurnAngles" /\ probe.arg = ZigZagPoints)
    => \A i \in 2..5 : probe.result[i] \in 88..92

\* C18, amended: for these control points the turn angles at the four interior
\* points are about 108.4, 126.9, 126.9 and 108.4 degrees (whole degrees, give or
\* take one), and 0 at both ends.
ZigZagTurnAngles ==
  (probe.fn = "computeTurnAngles" /\ probe.arg = ZigZagPoints)
    => /\ Len(probe.result) = 6
       /\ probe.result[1] = 0 /\ probe.result[6] = 0
       /\ probe.result[2] \in 108..109 /\ probe.result[5] \in 108..109
       /\ probe.result[3] \in 126..127 /\ probe.result[4] \in 126..127

\* computeTurnAngles has run on the zig-zag of six points
ZigZagAnglesComputed ==
  /\ probe.fn = "computeTurnAngles"
  /\ probe.arg = ZigZagPoints
  /\ probe.result[3] > 92


\* The control points, segment speeds and tables are those of one completed build:
\* the tables are what rebuildCurveAndRoad makes of the control points and fields,
\* and there is a segment speed for every segment
PathOfOneBuild ==
  /\ Loaded
  /\ Len(sCurveControlPoints) >= 2
  /\ Len(segSpeeds) = Len(sCurveControlPoints) - 1
  /\ <<sampledPts, cumLen, totalLen, sAtPoint, turnAngle>>
       = LET b == rebuildCurveAndRoad(sCurveControlPoints, tension, resScale, heightScale)
         IN <<b.sampledPts, b.cumLen, b.totalLen, b.sAtPoint, b.turnAngle>>

InvalidEntryIgnored ==
  [][/\ TensionInput(NaN) => tension' = tension
     /\ \A f \in DOMAIN speedWindow : SpeedWindowInput(f, NaN) => speedWindow' = speedWindow
     /\ \A f \in 1..7 : AnglePctInput(f, NaN) => anglePct' = anglePct
     /\ GyroSensitivityInput(NaN) => yawSensitivity' = yawSensitivity]_vars


\* C21: as long as the gyroscope is not enabled (the permission request denied,
\* unsupported or throwing makes enableGyroscope resolve to false), the steering
\* deflection is zero: the needle of every frame is 0.
NoDeflectionWhileDisabled ==
  (mainPc = "running" /\ ~isGyroEnabled)
    => needleNormalized(rollRelativeDegreesSmoothed, yawSensitivity) = 0


\* A step in which a call of enableGyroscope() resolves
EnableGyroscopeResolves ==
  \/ \E outcome \in PermissionOutcomes : MainEnableGyro(outcome)
  \/ \E outcome \in PermissionOutcomes : EnableGyroResolve(outcome)
  \/ (~isGyroEnabled /\ platform # "permission" /\ EnableGyroClick)

\* C28: what enableGyroscope resolves to agrees with the state it leaves: with
\* false the gyroscope is not enabled and no deviceorientation listener is
\* registered; with true it is enabled and the relative steering angle is 0.
EnableResultAgrees ==
  [][EnableGyroscopeResolves
     => /\ gyroResult' = "false" => (~isGyroEnabled' /\ ~listening')
        /\ gyroResult' = "true" => (isGyroEnabled' /\ rollRelativeDegreesSmoothed' = 0)]_vars


\* The interior control points, counted from 0
InteriorPoints == 1..(Len(sCurveControlPoints) - 2)

\* s lies at the turn at control point i or in a hold part of its windows: beyond
\* the fraction prevEnd of the segment before it, or within the fraction nextHold
\* of the segment after it
InHoldOf(s, i) ==
  LET sA == At(sAtPoint, i - 1)
      sT == At(sAtPoint, i)
      sB == At(sAtPoint, i + 1)
  IN /\ IsNum(s)
     /\ \/ s = sT
        \/ sA <= s /\ s <= sT /\ (s - sA) * Unit > speedWindow.wPrevEnd * (sT - sA)
        \/ sT <= s /\ s <= sB /\ (s - sT) * Unit <= speedWindow.wNextHold * (sB - sT)

\* A window of the turn at control point j reaches s
WindowCovers(s, j) ==
  LET sA == At(sAtPoint, j - 1)
      sT == At(sAtPoint, j)
      sB == At(sAtPoint, j + 1)
  IN \/ /\ sA <= s /\ s <= sT
        /\ \/ (s - sA) * Unit >= speedWindow.wPrevStart * (sT - sA)
           \/ (s - sA) * Unit > speedWindow.wPrevEnd * (sT - sA)
     \/ /\ sT <= s /\ s <= sB
        /\ \/ (s - sT) * Unit <= speedWindow.wNextHold * (sB - sT)
           \/ (s - sT) * Unit <= speedWindow.wNextAccel * (sB - sT)

\* min(segSpeeds[i-1], segSpeeds[i]) * severity(turnAngle[i])
MinSpeedOfTurn(i) ==
  NMul(MathMin(At(segSpeeds, i - 1), At(segSpeeds, i)), anglePercent(At(turnAngle, i)))

\* C22: at an interior turn point i and throughout the hold parts of its windows,
\* speedAtS(s) is min(segSpeeds[i-1], segSpeeds[i]) * severity(turnAngle[i]),
\* provided no window of a later turn covers s as well.
HoldsAtMinSpeed ==
  \A s \in Arguments : \A i \in InteriorPoints :
     (InHoldOf(s, i) /\ \A j \in InteriorPoints : j > i => ~WindowCovers(s, j))
       => speedAtS(s) = MinSpeedOfTurn(i)

\* speedAtS was called at a turn point or in a hold part of its windows and gave
\* the minimum speed of the turn, below the speeds of both segments
CalledInHold ==
  /\ probe.fn = "speedAtS"
  /\ probe.result = speedAtS(probe.arg)
  /\ \E i \in InteriorPoints :
        /\ InHoldOf(probe.arg, i)
        /\ \A j \in InteriorPoints : j > i => ~WindowCovers(probe.arg, j)
        /\ probe.arg # At(sAtPoint, i)
        /\ probe.result = MinSpeedOfTurn(i)
        /\ probe.result < At(segSpeeds, i - 1) /\ probe.result < At(segSpeeds, i)


\* s lies in the segment between the turns at control points i and i + 1, within
\* the exit window of the first and the approach window of the second
InBothWindows(s, i) ==
  LET sT == At(sAtPoint, i)
      sB == At(sAtPoint, i + 1)
  IN /\ IsNum(s) /\ sT < sB /\ sT <= s /\ s <= sB
     /\ speedWindow.wNextAccel > speedWindow.wPrevStart
     /\ (s - sT) * Unit <= speedWindow.wNextAccel * (sB - sT)
     /\ (s - sT) * Unit >= speedWindow.wPrevStart * (sB - sT)

\* What the approach window of the turn at control point j prescribes at s, by
\* itself: the speed of the segment before the turn brought down to the turn's
\* minimum speed between the fractions prevStart and prevEnd, the minimum beyond
ApproachAlone(s, j) ==
  LET sA == At(sAtPoint, j - 1)
      sB == At(sAtPoint, j)
      t == Clamp(DivEps(s - sA, sB - sA), 0, One)
      k == Clamp(DivEps(t - speedWindow.wPrevStart,
                        speedWindow.wPrevEnd - speedWindow.wPrevStart), 0, One)
  IN MathMax(0, IF t <= speedWindow.wPrevEnd
                THEN Lerp(At(segSpeeds, j - 1), MinSpeedOfTurn(j), k)
                ELSE MinSpeedOfTurn(j))

\* C23: where the exit window of turn i and the approach window of turn i + 1
\* overlap (nextAccel > prevStart), speedAtS(s) is the value the approach window of
\* turn i + 1 prescribes by itself: the later turn overwrites, nothing is blended.
LaterTurnOverwrites ==
  \A s \in Arguments : \A i \in InteriorPoints :
     (/\ i + 1 \in InteriorPoints
      /\ InBothWindows(s, i)
      /\ \A j \in InteriorPoints : j > i + 1 => ~WindowCovers(s, j))
       => speedAtS(s) = ApproachAlone(s, i + 1)

\* speedAtS was called inside both windows, short of the later turn, where the
\* exit window of the earlier turn had left another speed
CalledInBothWindows ==
  /\ probe.fn = "speedAtS"
  /\ probe.result = speedAtS(probe.arg)
  /\ \E i \in InteriorPoints :
        /\ i + 1 \in InteriorPoints
        /\ InBothWindows(probe.arg, i)
        /\ probe.arg < At(sAtPoint, i + 1)
        /\ probe.result = ApproachAlone(probe.arg, i + 1)
        /\ IsNum(probe.result)
        /\ MathMax(0, TurnWindow(probe.arg, baseSegmentSpeedAtS(probe.arg), i)) # probe.result


\* C24: the lead point lies at the arc length progressS + leadDistance, and that
\* position wraps around to the start of the path (modulo totalLength) when, and
\* only when, looping is enabled.
LeadWrapsOnlyWhenLooping ==
  [][(camera' # camera /\ IsNum(camera'.at) /\ IsNum(totalLen') /\ totalLen' > 0)
       => camera'.aheadS = IF isRideLooping'
                           THEN JsMod(camera'.at + LeadDistanceMeters, totalLen')
                           ELSE camera'.at + LeadDistanceMeters]_vars


\* C25: in the score-marker variant the final marker at t = 1 is scored when a
\* ride that does not loop finishes: a ride whose needle overlaps the target on
\* every frame ends with playerScore = maxScore, and always 0 <= playerScore <=
\* maxScore.
FinalMarkerScored ==
  /\ 0 <= markerRide.playerScore /\ markerRide.playerScore <= markerRide.maxScore
  /\ (/\ ~markerRide.isRideActive /\ ~markerRide.isRideLooping
      /\ markerRide.rideProgressT = Unit
      /\ markerRide.lastScorePointIndex = markerRide.maxScore
      /\ markerRide.clean)
       => markerRide.playerScore = markerRide.maxScore


\* C26: the ride is never Active with zero hearts: at every frame boundary
\* playerHearts is in 0..3 and isRideActive implies playerHearts >= 1, in the ride
\* on arc length and in the score-marker variant alike.
NeverActiveWithoutHearts ==
  /\ playerHearts \in 0..3
  /\ isRideActive => playerHearts >= 1
  /\ markerRide.playerHearts \in 0..3
  /\ markerRide.isRideActive => markerRide.playerHearts >= 1


\* C27: a ride that does not loop, once started and neither stopped, reset nor
\* ended by the loss of all hearts, eventually becomes Idle with progressS =
\* totalLength while frames keep arriving, for every loadable list of segment
\* speeds and every setting of the severity percentages.
RideReachesEnd ==
  (isRideActive /\ ~isRideLooping) ~> (~isRideActive /\ rideProgressS = totalLen)


\* C29: after stopRide the ride stays Idle until a start is issued after the stop;
\* a countdown begun before the stop, the first or a second one, never makes the
\* ride Active again.
StoppedRideStaysIdle ==
  [][\A k \in DOMAIN countdowns :
       (/\ countdowns[k].stopped /\ countdowns[k].count = 1
        /\ countdowns' = RemoveAt(countdowns, k))
         => ~isRideActive']_vars


\* C30: placeCameraAtPathT never runs against an empty sample table: in every
\* ordering of the initial load, the handlers and the frames, each call finds at
\* least two entries in sampledPts and cumLen, so that no handler or frame ends in
\* the TypeError of a read beyond the table.
PlacementFindsSamples ==
  ~(lastError = "TypeError" /\ (Len(sampledPts) < 2 \/ Len(cumLen) < 2))

=============================================================================
